---- MODULE Spec2Model ----
(***************************************************************************)
(* A model of the computation-graph engine: node.py (the node store, the   *)
(* constructors and their shape checks, the operator surface, value        *)
(* assignment) and graph.py (topological ordering, forward evaluation,     *)
(* gradient accumulation).                                                 *)
(*                                                                         *)
(* Two specifications share the module.                                    *)
(*   Spec       the Graph orchestrator over nodes whose shape is () and    *)
(*              whose values have batch size 1, so a value is one number.  *)
(*   SpecShape  the constructors, the operator surface, value assignment   *)
(*              and calc_value over nodes of arbitrary shape, where a      *)
(*              value is represented by its numpy shape.                   *)
(***************************************************************************)
EXTENDS Integers, Sequences, FiniteSets, TLC

VARIABLES nodes, root, ordering, gradients, calls, lastOp, passes,
          snodes, request, outcome

vars == <<nodes, root, ordering, gradients, calls, lastOp, passes, snodes, request, outcome>>

gvars == <<nodes, root, ordering, gradients, calls, lastOp, passes>>

svars == <<snodes, request, outcome>>

\* ------------------------------------------------------------------ bounds

\* Most nodes ever constructed in the graph world.
MaxNodes == 4

\* Values a Variable is constructed with or substituted to (batch 1, shape ()).
VarValues == {-1, 2}

\* ----------------------------------------------------------------- helpers

Range(s) == {s[i] : i \in DOMAIN s}

Reverse(s) == [i \in DOMAIN s |-> s[Len(s) + 1 - i]]

\* How many positions of the sequence s hold x.
Count(s, x) == Cardinality({i \in DOMAIN s : s[i] = x})

\* k copies of x.
Repeat(x, k) == [i \in 1..k |-> x]

\* All orders in which the elements of the finite set S can be enumerated.
Perms(S) == {p \in [1..Cardinality(S) -> S] : Range(p) = S}

\* ------------------------------------------------------------ node.py: Node

\* In Spec every node is built by Variable (from a one-number array of batch
\* size 1), ElemAdd, ElemMultiply, Negate or relu. All shapes are then (), no
\* constructor's shape test can fail, and a value or gradient is one number.

\* Node.__init__ for a node of the graph world: children list, value (the
\* given one, or zeros when None), empty parents, and one parents.append(self)
\* on the child per occurrence in children.
NodeInit(ns, kind, children, value) ==
    LET id == Len(ns) + 1
        reg == [i \in DOMAIN ns |->
                   [ns[i] EXCEPT !.parents = @ \o Repeat(id, Count(children, i))]]
    IN  Append(reg, [kind |-> kind, children |-> children,
                     parents |-> <<>>, value |-> value])

relu_function(x) == IF x > 0 THEN x ELSE 0

\* np.heaviside(x, 0)
relu_derivative(x) == IF x > 0 THEN 1 ELSE 0

\* node.calc_value(): the value the node n gets from its children's values.
\* A Variable's calc_value is `pass`.
calc_value(ns, n) ==
    LET k == ns[n].kind
        c == ns[n].children
    IN  CASE k = "Variable"     -> ns[n].value
          [] k = "ElemAdd"      -> 0 + ns[c[1]].value + ns[c[2]].value
          [] k = "ElemMultiply" -> ns[c[1]].value * ns[c[2]].value
          [] k = "Negate"       -> 0 - ns[c[1]].value
          [] k = "ElemFunc"     -> relu_function(ns[c[1]].value)

\* node.child_gradients(gradient): one contribution per entry of children.
child_gradients(ns, n, g) ==
    LET k == ns[n].kind
        c == ns[n].children
    IN  CASE k = "Variable"     -> <<>>
          [] k = "ElemAdd"      -> <<g, g>>
          [] k = "ElemMultiply" -> <<g * ns[c[2]].value, g * ns[c[1]].value>>
          [] k = "Negate"       -> <<0 - g>>
          [] k = "ElemFunc"     -> <<g * relu_derivative(ns[n].value)>>

\* --------------------------------------------------------- graph.py: Graph

\* Ready with the child pushed as soon as one parent is recorded.
Ready_FirstParent(ns, removed, child) ==
    Cardinality(removed[child]) = 1

\* `if len(removed_edges[child]) == len(set(child.parents))`
Ready(ns, removed, child) ==
    Cardinality(removed[child]) = Cardinality(Range(ns[child].parents))

\* The inner loop of _create_topological_ordering for the popped node, with
\* the unique children taken in the order cs: record the edge, push the child
\* once all of its unique parents are recorded.
RECURSIVE VisitChildren(_, _, _, _, _)
VisitChildren(ns, node, cs, S, removed) ==
    IF cs = <<>> THEN [S |-> S, removed |-> removed]
    ELSE LET child == Head(cs)
             rem1  == [removed EXCEPT ![child] = @ \cup {node}]
             S1    == IF Ready(ns, rem1, child) THEN Append(S, child) ELSE S
         IN  VisitChildren(ns, node, Tail(cs), S1, rem1)

\* The while loop of _create_topological_ordering. set(node.children) is
\* iterated in an order the language does not fix, so the result is the set
\* of lists the loop can return.
RECURSIVE Kahn(_, _, _, _)
Kahn(ns, S, ord, removed) ==
    IF S = <<>> THEN {ord}
    ELSE LET node == S[Len(S)]
             S0   == SubSeq(S, 1, Len(S) - 1)
             ord1 == Append(ord, node)
         IN  UNION { LET r == VisitChildren(ns, node, cs, S0, removed)
                     IN  Kahn(ns, r.S, ord1, r.removed)
                     : cs \in Perms(Range(ns[node].children)) }

create_topological_ordering(ns, r) ==
    Kahn(ns, <<r>>, <<>>, [i \in DOMAIN ns |-> {}])

\* EvaluationOrder without the reversal: root first.
EvaluationOrder_Forward(ord) == ord

\* The order in which calc_values visits the cached ordering.
EvaluationOrder(ord) == Reverse(ord)

\* Graph.calc_values: calc_value() on each node of the visiting order; returns
\* the node store and the list of nodes calc_value() was invoked on.
RECURSIVE RunValues(_, _, _)
RunValues(ns, todo, done) ==
    IF todo = <<>> THEN [nodes |-> ns, calls |-> done]
    ELSE LET n == Head(todo)
         IN  RunValues([ns EXCEPT ![n].value = calc_value(ns, n)],
                       Tail(todo), Append(done, n))

CalcValues(ns, ord) == RunValues(ns, EvaluationOrder(ord), <<>>)

\* `for child, gradient in zip(node.children, child_gradients)`: a child
\* absent from the dictionary starts at zeros, then the contribution is added.
RECURSIVE Accumulate(_, _, _, _)
Accumulate(g, cs, cg, i) ==
    IF i > Len(cs) \/ i > Len(cg) THEN g
    ELSE LET child == cs[i]
             cur   == IF child \in DOMAIN g THEN g[child] ELSE 0
             g1    == [x \in DOMAIN g \cup {child} |->
                          IF x = child THEN cur + cg[i] ELSE g[x]]
         IN  Accumulate(g1, cs, cg, i + 1)

\* `self.gradients = {self.root: 1.0}`
InitialGradients(r) == [x \in {r} |-> 1]

\* The loop of calc_gradients over the ordering. self.gradients[node] on a
\* node that has no entry raises KeyError and leaves the dictionary as it is.
RECURSIVE RunGradients(_, _, _)
RunGradients(ns, todo, g) ==
    IF todo = <<>> THEN [gradients |-> g, raised |-> FALSE]
    ELSE LET n == Head(todo)
         IN  IF n \notin DOMAIN g THEN [gradients |-> g, raised |-> TRUE]
             ELSE RunGradients(ns, Tail(todo),
                     Accumulate(g, ns[n].children, child_gradients(ns, n, g[n]), 1))

\* ----------------------------------------------------------------- actions

Built == Len(nodes) < MaxNodes

\* lastOp is the operation that produced the state; passes counts the
\* calc_values calls made in a row, up to two.
Stamp(op) ==
    /\ lastOp' = op
    /\ passes' = IF op # "calc_values" THEN 0
                 ELSE IF passes = 0 THEN 1 ELSE 2

NewVariable ==
    /\ Built
    /\ \E v \in VarValues : nodes' = NodeInit(nodes, "Variable", <<>>, v)
    /\ Stamp("new")
    /\ UNCHANGED <<root, ordering, gradients, calls, svars>>

NewElemAdd ==
    /\ Built
    /\ \E l, r \in DOMAIN nodes : nodes' = NodeInit(nodes, "ElemAdd", <<l, r>>, 0)
    /\ Stamp("new")
    /\ UNCHANGED <<root, ordering, gradients, calls, svars>>

NewElemMultiply ==
    /\ Built
    /\ \E l, r \in DOMAIN nodes : nodes' = NodeInit(nodes, "ElemMultiply", <<l, r>>, 0)
    /\ Stamp("new")
    /\ UNCHANGED <<root, ordering, gradients, calls, svars>>

NewNegate ==
    /\ Built
    /\ \E c \in DOMAIN nodes : nodes' = NodeInit(nodes, "Negate", <<c>>, 0)
    /\ Stamp("new")
    /\ UNCHANGED <<root, ordering, gradients, calls, svars>>

\* activation.relu(child_node)
NewRelu ==
    /\ Built
    /\ \E c \in DOMAIN nodes : nodes' = NodeInit(nodes, "ElemFunc", <<c>>, 0)
    /\ Stamp("new")
    /\ UNCHANGED <<root, ordering, gradients, calls, svars>>

\* Graph(node)
GraphInit ==
    /\ root = 0
    /\ \E r \in DOMAIN nodes :
          /\ root' = r
          /\ ordering' \in create_topological_ordering(nodes, r)
    /\ gradients' = <<>>
    /\ Stamp("graph")
    /\ UNCHANGED <<nodes, calls, svars>>

\* Graph.compile()
compile ==
    /\ root # 0
    /\ ordering' \in create_topological_ordering(nodes, root)
    /\ Stamp("compile")
    /\ UNCHANGED <<nodes, root, gradients, calls, svars>>

\* Graph.calc_values()
calc_values ==
    /\ root # 0
    /\ LET r == CalcValues(nodes, ordering)
       IN  /\ nodes' = r.nodes
           /\ calls' = r.calls
    /\ Stamp("calc_values")
    /\ UNCHANGED <<root, ordering, gradients, svars>>

\* Graph.calc_gradients()
calc_gradients ==
    /\ root # 0
    /\ LET f == CalcValues(nodes, ordering)
           r == RunGradients(f.nodes, ordering, InitialGradients(root))
       IN  /\ nodes' = f.nodes
           /\ calls' = f.calls
           /\ gradients' = r.gradients
           /\ Stamp(IF r.raised THEN "KeyError" ELSE "calc_gradients")
    /\ UNCHANGED <<root, ordering, svars>>

\* variable.value = v, between evaluations
substitute ==
    /\ \E n \in DOMAIN nodes, v \in VarValues :
          /\ nodes[n].kind = "Variable"
          /\ nodes[n].value # v
          /\ nodes' = [nodes EXCEPT ![n].value = v]
    /\ Stamp("substitute")
    /\ UNCHANGED <<root, ordering, gradients, calls, svars>>

Init ==
    /\ nodes = <<>>
    /\ root = 0
    /\ ordering = <<>>
    /\ gradients = <<>>
    /\ calls = <<>>
    /\ lastOp = "init"
    /\ passes = 0
    /\ snodes = <<>>
    /\ request = [op |-> "init", a |-> 0, b |-> 0, plain |-> FALSE, pshape |-> <<>>]
    /\ outcome = "init"

Next ==
    \/ NewVariable
    \/ NewElemAdd
    \/ NewElemMultiply
    \/ NewNegate
    \/ NewRelu
    \/ GraphInit
    \/ compile
    \/ calc_values
    \/ calc_gradients
    \/ substitute

Spec == Init /\ [][Next]_vars

\* ===================================================== SpecShape: node.py

\* Most nodes ever constructed in the shape world.
MaxShapeNodes == 3

\* Node shapes used to build values: scalar, one element, two vector lengths
\* and a matrix.
Shapes == {<<>>, <<1>>, <<4>>, <<5>>, <<4, 5>>}

\* Batch sizes of the arrays handed in.
Batches == {1, 2}

\* numpy shapes of arrays that contain the batch dimension: (batch, *shape).
BatchedShapes == {<<b>> \o sh : b \in Batches, sh \in Shapes}

\* numpy shapes of the arrays a caller assigns: those, and the 0-dimensional
\* array (np.array(5.0), or a numpy scalar such as the result of .sum()).
ArrayShapes == BatchedShapes \cup {<<>>}

\* Shapes of the plain (non-Node) operands of the operator surface: a number
\* and a length-4 tensor.
PlainShapes == {<<>>, <<4>>}

Front(s) == SubSeq(s, 1, Len(s) - 1)

\* Python's t[1:] on a tuple.
Slice1(t) == IF t = <<>> THEN <<>> ELSE Tail(t)

\* Python's sum(t) on a tuple of numbers.
RECURSIVE TupleSum(_)
TupleSum(t) == IF t = <<>> THEN 0 ELSE Head(t) + TupleSum(Tail(t))

\* Number of elements of a tensor of shape t.
RECURSIVE Size(_)
Size(t) == IF t = <<>> THEN 1 ELSE Head(t) * Size(Tail(t))

\* numpy broadcasting of two shapes: aligned at the right, sizes equal or 1.
RECURSIVE Broadcast(_, _)
Broadcast(a, b) ==
    IF a = <<>> THEN [ok |-> TRUE, shape |-> b]
    ELSE IF b = <<>> THEN [ok |-> TRUE, shape |-> a]
    ELSE LET x == a[Len(a)]
             y == b[Len(b)]
             r == Broadcast(Front(a), Front(b))
         IN  IF ~r.ok \/ (x # y /\ x # 1 /\ y # 1)
             THEN [ok |-> FALSE, shape |-> <<>>]
             ELSE [ok |-> TRUE, shape |-> Append(r.shape, IF x = 1 THEN y ELSE x)]

\* Node.__setattr__('value', v): accepted when v.shape[1:] == self.shape.
ValueAccepted(shape, vshape) == Slice1(vshape) = shape

\* Node.__init__: children, shape, value (zeros((1, *shape)) when None, else
\* the given array after the shape test), parents registration.
ShapeNodeInit(ns, kind, children, shape, hasValue, vshape) ==
    LET id    == Len(ns) + 1
        value == IF hasValue THEN vshape ELSE <<1>> \o shape
        reg   == [i \in DOMAIN ns |->
                    [ns[i] EXCEPT !.parents = @ \o Repeat(id, Count(children, i))]]
    IN  IF (hasValue /\ shape # Slice1(vshape)) \/ ~ValueAccepted(shape, value)
        THEN [outcome |-> "ValueError", nodes |-> ns]
        ELSE [outcome |-> "ok",
              nodes |-> Append(reg, [kind |-> kind, children |-> children,
                                     parents |-> <<>>, shape |-> shape,
                                     vshape |-> value])]

\* Variable.__init__(value)
Variable(ns, vshape) ==
    ShapeNodeInit(ns, "Variable", <<>>, Slice1(vshape), TRUE, vshape)

\* `if left.shape != right.shape: raise ValueError`
ElemShapesDiffer(ls, rs) == ls # rs

\* ElemAdd.__init__ and ElemMultiply.__init__
Elementwise(ns, kind, left, right) ==
    IF ElemShapesDiffer(ns[left].shape, ns[right].shape)
    THEN [outcome |-> "ValueError", nodes |-> ns]
    ELSE ShapeNodeInit(ns, kind, <<left, right>>, ns[left].shape, FALSE, <<>>)

\* `if len(scalar.shape) > 1: raise TypeError`
NotAScalar(sh) == Len(sh) > 1

\* ScalarMultiply.__init__
ScalarMultiply(ns, scalar, vector) ==
    IF NotAScalar(ns[scalar].shape)
    THEN [outcome |-> "TypeError", nodes |-> ns]
    ELSE ShapeNodeInit(ns, "ScalarMultiply", <<scalar, vector>>,
                       ns[vector].shape, FALSE, <<>>)

\* MatVecMismatch testing the matrix's outer dimension.
MatVecMismatch_Outer(ms, vs) == ms[1] # vs[1]

\* `if matrix.shape[1] != vector.shape[0]: raise ValueError`
MatVecMismatch(ms, vs) == ms[2] # vs[1]

\* MatVecMultiply.__init__; indexing a shape that is too short is IndexError.
MatVecMultiply(ns, matrix, vector) ==
    IF Len(ns[matrix].shape) < 2 \/ Len(ns[vector].shape) < 1
    THEN [outcome |-> "IndexError", nodes |-> ns]
    ELSE IF MatVecMismatch(ns[matrix].shape, ns[vector].shape)
    THEN [outcome |-> "ValueError", nodes |-> ns]
    ELSE ShapeNodeInit(ns, "MatVecMultiply", <<matrix, vector>>,
                       <<ns[matrix].shape[1]>>, FALSE, <<>>)

\* Negate.__init__ and ElemFunc.__init__
Unary(ns, kind, child) ==
    ShapeNodeInit(ns, kind, <<child>>, ns[child].shape, FALSE, <<>>)

\* The node classes node.py defines. Constant is named by __add__ and
\* __sub__ and defined nowhere.
DefinedClasses ==
    {"Variable", "ElemAdd", "ElemMultiply", "ScalarMultiply", "MatVecMultiply",
     "Negate", "ElemFunc"}

\* Constant(other): the name is looked up when the call is made.
Constant(ns, pshape) ==
    IF "Constant" \notin DefinedClasses
    THEN [outcome |-> "NameError", nodes |-> ns]
    ELSE ShapeNodeInit(ns, "Constant", <<>>, pshape, TRUE, <<1>> \o pshape)

\* Node.__add__(self, other) with a Node: ElemAdd(self, other).
\* Node.__add__(self, other) with a plain value: Constant(other) first.
add_plain(ns, self, pshape) ==
    LET c == Constant(ns, pshape)
    IN  IF c.outcome # "ok" THEN c
        ELSE Elementwise(c.nodes, "ElemAdd", self, Len(c.nodes))

\* Node.__sub__(self, other) with a Node: ElemAdd(self, Negate(other)); the
\* Negate node exists, and is registered with other, before ElemAdd tests.
sub_node(ns, self, other) ==
    LET n == Unary(ns, "Negate", other)
    IN  Elementwise(n.nodes, "ElemAdd", self, Len(n.nodes))

sub_plain(ns, self, pshape) ==
    LET c == Constant(ns, pshape)
    IN  IF c.outcome # "ok" THEN c
        ELSE sub_node(c.nodes, self, Len(c.nodes))

\* The dispatch of Node.__mul__ on the two operand shapes.
mul_node(ns, self, other) ==
    LET a == ns[self].shape
        b == ns[other].shape
    IN  IF a = b THEN Elementwise(ns, "ElemMultiply", self, other)
        ELSE IF TupleSum(a) <= 1 THEN ScalarMultiply(ns, self, other)
        ELSE IF TupleSum(b) <= 1 THEN ScalarMultiply(ns, other, self)
        ELSE IF Len(a) = 2 /\ Len(b) = 1
             THEN IF a[2] # b[1] THEN [outcome |-> "NotImplemented", nodes |-> ns]
                  ELSE MatVecMultiply(ns, self, other)
        ELSE [outcome |-> "NotImplemented", nodes |-> ns]

\* Node.__mul__(self, other) with a plain value: Variable(np.array([other]))
\* first. When the dispatch then returns NotImplemented the Variable is
\* referenced by nothing and is dropped.
mul_plain(ns, self, pshape) ==
    LET v == Variable(ns, <<1>> \o pshape)
        r == mul_node(v.nodes, self, Len(v.nodes))
    IN  IF r.outcome = "ok" THEN r ELSE [outcome |-> r.outcome, nodes |-> ns]

\* np.einsum('...jk,...k->...j', A, v) on shapes.
MatVecValue(A, v) ==
    IF Len(A) < 2 \/ Len(v) < 1 THEN [ok |-> FALSE, shape |-> <<>>]
    ELSE LET j  == A[Len(A) - 1]
             k1 == A[Len(A)]
             k2 == v[Len(v)]
             e  == Broadcast(SubSeq(A, 1, Len(A) - 2), Front(v))
         IN  IF ~e.ok \/ (k1 # k2 /\ k1 # 1 /\ k2 # 1)
             THEN [ok |-> FALSE, shape |-> <<>>]
             ELSE [ok |-> TRUE, shape |-> Append(e.shape, j)]

\* The numpy shape of the array node.calc_value() computes for node n.
ComputedShape(ns, n) ==
    LET k == ns[n].kind
        c == ns[n].children
    IN  CASE k \in {"ElemAdd", "ElemMultiply", "ScalarMultiply"} ->
                Broadcast(ns[c[1]].vshape, ns[c[2]].vshape)
          [] k = "MatVecMultiply" -> MatVecValue(ns[c[1]].vshape, ns[c[2]].vshape)
          [] OTHER -> [ok |-> TRUE, shape |-> ns[c[1]].vshape]

\* node.calc_value(): `pass` for a Variable; otherwise compute, then assign
\* through __setattr__. A numpy error in computing, or a refused assignment,
\* is ValueError and leaves the value as it was.
shape_calc_value(ns, n) ==
    IF ns[n].kind = "Variable" THEN [outcome |-> "ok", nodes |-> ns]
    ELSE LET r == ComputedShape(ns, n)
         IN  IF ~r.ok \/ ~ValueAccepted(ns[n].shape, r.shape)
             THEN [outcome |-> "ValueError", nodes |-> ns]
             ELSE [outcome |-> "ok", nodes |-> [ns EXCEPT ![n].vshape = r.shape]]

\* node.value = array
set_value(ns, n, vshape) ==
    IF ~ValueAccepted(ns[n].shape, vshape)
    THEN [outcome |-> "ValueError", nodes |-> ns]
    ELSE [outcome |-> "ok", nodes |-> [ns EXCEPT ![n].vshape = vshape]]

\* ----------------------------------------------------- SpecShape: actions

Room == Len(snodes) < MaxShapeNodes

Request(op, a, b, plain, pshape) ==
    [op |-> op, a |-> a, b |-> b, plain |-> plain, pshape |-> pshape]

\* request' names the call made, outcome' how it ended, snodes' the store.
Call(req, res) ==
    /\ request' = req
    /\ outcome' = res.outcome
    /\ snodes' = res.nodes
    /\ UNCHANGED gvars

CallVariable ==
    /\ Room
    /\ \E vs \in BatchedShapes :
          Call(Request("Variable", 0, 0, FALSE, vs), Variable(snodes, vs))

CallElemAdd ==
    /\ Room
    /\ \E l, r \in DOMAIN snodes :
          Call(Request("ElemAdd", l, r, FALSE, <<>>),
               Elementwise(snodes, "ElemAdd", l, r))

CallElemMultiply ==
    /\ Room
    /\ \E l, r \in DOMAIN snodes :
          Call(Request("ElemMultiply", l, r, FALSE, <<>>),
               Elementwise(snodes, "ElemMultiply", l, r))

CallScalarMultiply ==
    /\ Room
    /\ \E l, r \in DOMAIN snodes :
          Call(Request("ScalarMultiply", l, r, FALSE, <<>>),
               ScalarMultiply(snodes, l, r))

CallMatVecMultiply ==
    /\ Room
    /\ \E l, r \in DOMAIN snodes :
          Call(Request("MatVecMultiply", l, r, FALSE, <<>>),
               MatVecMultiply(snodes, l, r))

CallNegate ==
    /\ Room
    /\ \E c \in DOMAIN snodes :
          Call(Request("Negate", c, 0, FALSE, <<>>), Unary(snodes, "Negate", c))

CallElemFunc ==
    /\ Room
    /\ \E c \in DOMAIN snodes :
          Call(Request("ElemFunc", c, 0, FALSE, <<>>), Unary(snodes, "ElemFunc", c))

\* self + other
OpAdd ==
    /\ Room
    /\ \E self \in DOMAIN snodes :
          \/ \E other \in DOMAIN snodes :
                Call(Request("__add__", self, other, FALSE, <<>>),
                     Elementwise(snodes, "ElemAdd", self, other))
          \/ \E ps \in PlainShapes :
                Call(Request("__add__", self, 0, TRUE, ps), add_plain(snodes, self, ps))

\* self - other
OpSub ==
    /\ Len(snodes) + 1 < MaxShapeNodes
    /\ \E self \in DOMAIN snodes :
          \/ \E other \in DOMAIN snodes :
                Call(Request("__sub__", self, other, FALSE, <<>>),
                     sub_node(snodes, self, other))
          \/ \E ps \in PlainShapes :
                Call(Request("__sub__", self, 0, TRUE, ps), sub_plain(snodes, self, ps))

\* self * other
OpMul ==
    /\ \E self \in DOMAIN snodes :
          \/ /\ Room
             /\ \E other \in DOMAIN snodes :
                   Call(Request("__mul__", self, other, FALSE, <<>>),
                        mul_node(snodes, self, other))
          \/ /\ Len(snodes) + 1 < MaxShapeNodes
             /\ \E ps \in PlainShapes :
                   Call(Request("__mul__", self, 0, TRUE, ps),
                        mul_plain(snodes, self, ps))

\* variable.value = array
AssignValue ==
    \E n \in DOMAIN snodes, vs \in ArrayShapes :
        /\ snodes[n].kind = "Variable"
        /\ Call(Request("value=", n, 0, FALSE, vs), set_value(snodes, n, vs))

\* node.calc_value(), as calc_values invokes it on each node
CallCalcValue ==
    \E n \in DOMAIN snodes :
        Call(Request("calc_value", n, 0, FALSE, <<>>), shape_calc_value(snodes, n))

ShapeNext ==
    \/ CallVariable
    \/ CallElemAdd
    \/ CallElemMultiply
    \/ CallScalarMultiply
    \/ CallMatVecMultiply
    \/ CallNegate
    \/ CallElemFunc
    \/ OpAdd
    \/ OpSub
    \/ OpMul
    \/ AssignValue
    \/ CallCalcValue

SpecShape == Init /\ [][ShapeNext]_vars

\* ------------------------------------------------- claims on the Graph (Spec)

\* The nodes transitively reachable from r through children.
RECURSIVE Closure(_, _)
Closure(ns, seen) ==
    LET more == seen \cup UNION {Range(ns[n].children) : n \in seen}
    IN  IF more = seen THEN seen ELSE Closure(ns, more)

Reachable(ns, r) == Closure(ns, {r})

NoDuplicates(s) == \A i, j \in DOMAIN s : s[i] = s[j] => i = j

Compiled == root # 0 /\ lastOp \in {"graph", "compile"}

\* C1: the list _create_topological_ordering returns has the root first, and
\* no node of it stands at an earlier index than a node of it that has it as
\* a child.
C1_ParentsFirst ==
    Compiled =>
        /\ Len(ordering) >= 1
        /\ ordering[1] = root
        /\ \A i, j \in DOMAIN ordering :
              i <= j => ordering[i] \notin Range(nodes[ordering[j]].children)

\* A compiled ordering that holds a diamond (a node under two of its nodes)
\* and a node with a duplicate edge.
C1_Witness ==
    /\ Compiled
    /\ \E n \in Range(ordering) :
          Cardinality(Range(nodes[n].parents) \cap Range(ordering)) >= 2
    /\ \E n \in Range(ordering) :
          Len(nodes[n].children) = 2 /\ nodes[n].children[1] = nodes[n].children[2]

\* C2: right after Graph(root) and after every compile(), ordering lists
\* exactly the nodes reachable from root, each once.
C2_OrderingIsReachableSet ==
    Compiled =>
        /\ NoDuplicates(ordering)
        /\ Range(ordering) = Reachable(nodes, root)

\* The edge occurrences (p, i) into n from parents reachable from root.
EdgesInto(n) ==
    {e \in Reachable(nodes, root) \X (1..2) :
        e[2] \in DOMAIN nodes[e[1]].children /\ nodes[e[1]].children[e[2]] = n}

RECURSIVE SumContributions(_)
SumContributions(E) ==
    IF E = {} THEN 0
    ELSE LET e == CHOOSE x \in E : TRUE
         IN  child_gradients(nodes, e[1], gradients[e[1]])[e[2]]
                + SumContributions(E \ {e})

\* C3: after calc_gradients every node reachable from root has an entry, the
\* root's is 1, and every other entry is the sum of its parents'
\* contributions over every edge occurrence.
C3_GradientIsEdgeSum ==
    (root # 0 /\ lastOp = "calc_gradients") =>
        /\ Reachable(nodes, root) \subseteq DOMAIN gradients
        /\ gradients[root] = 1
        /\ \A n \in Reachable(nodes, root) \ {root} :
              gradients[n] = SumContributions(EdgesInto(n))

\* C4: a calc_values call that directly follows a calc_values call changes no
\* node's value.
C4_ForwardIdempotent ==
    [][(lastOp = "calc_values" /\ lastOp' = "calc_values") => nodes' = nodes]_vars

\* Two calc_values calls in a row over an ordering of at least three nodes
\* that left a computed value other than the initial zeros.
C4_Witness ==
    /\ passes = 2
    /\ Len(ordering) >= 3
    /\ \E n \in Range(ordering) : nodes[n].kind # "Variable" /\ nodes[n].value # 0

\* C9: in the last calc_values pass, every node calc_value() was invoked on
\* had calc_value() invoked earlier in the pass on each of its children.
C9_ChildrenComputedFirst ==
    (root # 0 /\ lastOp = "calc_values") =>
        \A i \in DOMAIN calls :
            \A c \in Range(nodes[calls[i]].children) :
                \E j \in 1..(i - 1) : calls[j] = c

\* The node store with every computed (non-Variable) value put back to the
\* zeros it was constructed with.
Forgotten(ns) ==
    [i \in DOMAIN ns |->
        IF ns[i].kind = "Variable" THEN ns[i] ELSE [ns[i] EXCEPT !.value = 0]]

\* C10: the gradients calc_gradients leaves depend only on the Variable
\* values current at the call: they are the gradients the same call gives
\* when no value computed earlier is left in the nodes.
C10_GradientsFromCurrentVariables ==
    (root # 0 /\ lastOp = "calc_gradients") =>
        gradients =
            RunGradients(CalcValues(Forgotten(nodes), ordering).nodes, ordering,
                         InitialGradients(root)).gradients

\* ------------------------------------------- claims on node.py (SpecShape)

Last(ns) == ns[Len(ns)]

\* C5: a call of ElemAdd or ElemMultiply on operands of different shapes, or
\* of MatVecMultiply on a matrix and a vector whose inner dimensions differ,
\* ends in ValueError and leaves the node store (nodes and parents lists) as
\* it was; MatVecMultiply on a matrix (j, k) and a vector (k,) appends a node
\* of shape (j,).
C5_ShapeChecked ==
    [][ LET r == request'
            a == snodes[r.a].shape
            b == snodes[r.b].shape
        IN  /\ (r.op \in {"ElemAdd", "ElemMultiply"} /\ a # b) =>
                  (outcome' = "ValueError" /\ snodes' = snodes)
            /\ (r.op = "MatVecMultiply" /\ Len(a) = 2 /\ Len(b) = 1) =>
                  IF a[2] # b[1]
                  THEN outcome' = "ValueError" /\ snodes' = snodes
                  ELSE /\ outcome' = "ok"
                       /\ Len(snodes') = Len(snodes) + 1
                       /\ Last(snodes').kind = "MatVecMultiply"
                       /\ Last(snodes').shape = <<a[1]>>
      ]_vars

\* The last call was MatVecMultiply on a (4,5) matrix and a (4,) vector and
\* was refused; no node of the store has an entry in its parents list.
C5_Witness ==
    /\ request.op = "MatVecMultiply"
    /\ outcome = "ValueError"
    /\ snodes[request.a].shape = <<4, 5>>
    /\ snodes[request.b].shape = <<4>>
    /\ \A n \in DOMAIN snodes : snodes[n].parents = <<>>

\* C6: ScalarMultiply with a first operand of more than one element is
\* refused at construction, so no ScalarMultiply node has such a first child.
C6_ScalarOperandChecked ==
    /\ (request.op = "ScalarMultiply" /\ Size(snodes[request.a].shape) > 1) =>
          outcome # "ok"
    /\ \A n \in DOMAIN snodes :
          snodes[n].kind = "ScalarMultiply" =>
              Size(snodes[snodes[n].children[1]].shape) <= 1

\* C7: every node's value has shape (batch, *shape), and an assignment of a
\* value whose shape after the batch dimension differs from the node's shape
\* is refused.
C7_ValueHasBatchShape ==
    /\ \A n \in DOMAIN snodes :
          /\ Len(snodes[n].vshape) >= 1
          /\ Tail(snodes[n].vshape) = snodes[n].shape
    /\ (request.op = "value=" /\ Slice1(request.pshape) # snodes[request.a].shape) =>
          outcome = "ValueError"

\* Whether node c reaches node n as a child, directly or under a Negate.
Operand(ns, n, c) ==
    \E i \in DOMAIN ns[n].children :
        \/ ns[n].children[i] = c
        \/ /\ ns[ns[n].children[i]].kind = "Negate"
           /\ ns[ns[n].children[i]].children[1] = c

\* C8: +, - or * of a node with a plain value succeeds, and the node it
\* returns has a Constant leaf as its other operand.
C8_PlainOperandPromoted ==
    (request.op \in {"__add__", "__sub__", "__mul__"} /\ request.plain) =>
        /\ outcome = "ok"
        /\ \E c \in DOMAIN snodes :
              /\ snodes[c].kind = "Constant"
              /\ Operand(snodes, Len(snodes), c)

====
